---- MODULE Spec2Model ----
(***************************************************************************)
(* Model of the free-text parsers of the sentiment screener:               *)
(*   - SentimentAnalyzer._structure_analysis (src/sentiment-analyzer.py)   *)
(*   - the inline parser of the "Download Results as CSV" handler          *)
(*     (src/app.py)                                                        *)
(*                                                                         *)
(* A text is a sequence of characters.  The characters are one-character   *)
(* strings, except that the three words the code searches for are each one *)
(* symbol: "O" is the word "Overall Sentiment", "N" is "Negative Reviews"  *)
(* and "I" is "Issue Summary".  A marker is such a word followed by the    *)
(* colon character, so the colon that ends a marker is the same character  *)
(* the username split looks for.                                           *)
(***************************************************************************)
EXTENDS Integers, Sequences, FiniteSets, TLC

VARIABLES analysis_text, pc, idx, overall_sentiment, in_negative_section,
          current_review, negative_reviews, result,
          csv_pc, csv_idx, csv_overall_sentiment, parsing_negative,
          current_user, current_review_text, current_summary,
          csv_negative_reviews,
          api_key, openai_api_key, requests

parser_vars == <<pc, idx, overall_sentiment, in_negative_section,
                 current_review, negative_reviews, result>>

csv_vars == <<csv_pc, csv_idx, csv_overall_sentiment, parsing_negative,
              current_user, current_review_text, current_summary,
              csv_negative_reviews>>

\* self.api_key of every instance, the module global openai.api_key, and the
\* chat requests issued so far
key_vars == <<api_key, openai_api_key, requests>>

vars == <<analysis_text, parser_vars, csv_vars, key_vars>>

(***************************************************************************)
(* Bounds of the inputs.                                                   *)
(***************************************************************************)
MaxLines == 4

(***************************************************************************)
(* Characters and markers.                                                 *)
(***************************************************************************)
NL == "\n"

Whitespace == {" ", NL}

OverallMarker == <<"O", ":">>

NegativeMarker == <<"N", ":">>

SummaryMarker == <<"I", ":">>

Colon == <<":">>

(***************************************************************************)
(* Python values: None / a string, and dicts as functions on their keys.   *)
(***************************************************************************)
None == <<>>

Str(s) == <<s>>

EmptyDict == [k \in {} |-> <<>>]

DictSet(d, key, v) == [k \in (DOMAIN d) \cup {key} |-> IF k = key THEN v ELSE d[k]]

(***************************************************************************)
(* str methods.                                                            *)
(***************************************************************************)
\* the suffix of s from position i on
Drop(s, i) == SubSeq(s, i, Len(s))

\* s.startswith(m)
StartsWith(s, m) == Len(s) >= Len(m) /\ SubSeq(s, 1, Len(m)) = m

\* s.find(m), 1-based; 0 when m does not occur in s
Find(s, m) ==
    LET hits == {i \in 1..(Len(s) - Len(m) + 1) : SubSeq(s, i, i + Len(m) - 1) = m}
    IN  IF hits = {} THEN 0 ELSE CHOOSE i \in hits : \A j \in hits : i <= j

\* m in s
Contains(s, m) == Find(s, m) # 0

RECURSIVE LStrip(_)
LStrip(s) == IF s # <<>> /\ Head(s) \in Whitespace THEN LStrip(Tail(s)) ELSE s

RECURSIVE RStrip(_)
RStrip(s) ==
    IF s # <<>> /\ s[Len(s)] \in Whitespace THEN RStrip(SubSeq(s, 1, Len(s) - 1)) ELSE s

\* s.strip()
Strip(s) == RStrip(LStrip(s))

\* s.split(sep): every occurrence of sep separates two parts
RECURSIVE Split(_, _)
Split(s, sep) ==
    LET i == Find(s, sep)
    IN  IF i = 0 THEN <<s>>
        ELSE <<SubSeq(s, 1, i - 1)>> \o Split(Drop(s, i + Len(sep)), sep)

\* s.split(sep, 1): only the first occurrence of sep separates
SplitOnce(s, sep) ==
    LET i == Find(s, sep)
    IN  IF i = 0 THEN <<s>>
        ELSE <<SubSeq(s, 1, i - 1), Drop(s, i + Len(sep))>>

\* analysis_text.split('\n')
SplitLines(text) == Split(text, <<NL>>)

\* "\n".join(ls)
RECURSIVE JoinLines(_)
JoinLines(ls) ==
    IF ls = <<>> THEN <<>>
    ELSE IF Len(ls) = 1 THEN ls[1]
    ELSE ls[1] \o <<NL>> \o JoinLines(Tail(ls))

(***************************************************************************)
(* Inputs.  An input is str or not; a str input is a text of lines.        *)
(***************************************************************************)
TextInput(ls) == [kind |-> "str", val |-> JoinLines(ls)]

NonTextInput == [kind |-> "NoneType", val |-> <<>>]

IsText == analysis_text.kind = "str"

Lines == SplitLines(analysis_text.val)

\* sequences of at most n elements of S
RECURSIVE SeqsUpTo(_, _)
SeqsUpTo(S, n) ==
    IF n = 0 THEN {<<>>}
    ELSE LET shorter == SeqsUpTo(S, n - 1)
         IN  shorter \cup {Append(s, x) : s \in {t \in shorter : Len(t) = n - 1}, x \in S}

\* lines of every shape the parsers distinguish
LineSet ==
    { <<" ">>,
      <<"b">>,
      <<"N", ":">>,
      <<" ", "a", ":", "b", ":", " ">>,
      <<"I", ":", " ", "a">>,
      <<"I", ":", "N", ":">>,
      <<"O", ":", " ", "a", " ">>,
      <<"O", ":", "b", "O", ":", "a">> }

(***************************************************************************)
(* SentimentAnalyzer._structure_analysis                                   *)
(***************************************************************************)
\* line.split("Overall Sentiment:")[1].strip()
SentimentOf(line) == Strip(Split(line, OverallMarker)[2])

\* the first loop without its break: the last line with the marker decides
RECURSIVE ExtractOverallSentiment_NoBreak(_, _)
ExtractOverallSentiment_NoBreak(ls, i) ==
    IF i > Len(ls) THEN None
    ELSE LET later == ExtractOverallSentiment_NoBreak(ls, i + 1)
         IN  IF later # None THEN later
             ELSE IF Contains(ls[i], OverallMarker) THEN Str(SentimentOf(ls[i]))
             ELSE None

\* the first loop: the first line with the marker decides, then break
RECURSIVE ExtractOverallSentiment(_, _)
ExtractOverallSentiment(ls, i) ==
    IF i > Len(ls) THEN None
    ELSE IF Contains(ls[i], OverallMarker) THEN Str(SentimentOf(ls[i]))
    ELSE ExtractOverallSentiment(ls, i + 1)

\* the section test with startswith instead of "in"
IsSectionStart_StartsWith(line) == StartsWith(line, NegativeMarker)

\* the branch conditions of the second loop, on the stripped line
IsSectionStart(line) == Contains(line, NegativeMarker)

\* the skip test without the section flag
IsSkipped_IgnoresSection(line, in_section) == line = <<>>

IsSkipped(line, in_section) == ~in_section \/ line = <<>>

IsIssueSummary(line) == StartsWith(line, SummaryMarker)

\* the username test without "and not current_review"
IsUsernameLine_Replaces(line, review) == Contains(line, Colon)

IsUsernameLine(line, review) == Contains(line, Colon) /\ review = EmptyDict

\* line[len("Issue Summary:"):].strip()
SummaryOf(line) == Strip(Drop(line, Len(SummaryMarker) + 1))

\* the dict built from a split at every colon instead of the first only
NewReview_SplitAll(line) ==
    LET parts == Split(line, Colon)
    IN  [username |-> Strip(parts[1]),
         review_text |-> IF Len(parts) > 1 THEN Strip(parts[2]) ELSE <<>>]

\* the dict built from line.split(":", 1)
NewReview(line) ==
    LET parts == SplitOnce(line, Colon)
    IN  [username |-> Strip(parts[1]),
         review_text |-> IF Len(parts) > 1 THEN Strip(parts[2]) ELSE <<>>]

\* the dict with the summary added, as appended to negative_reviews
CompletedReview(review, line) == DictSet(review, "issue_summary", SummaryOf(line))

\* the pending dict kept, summary included, instead of cleared
ClearedReview_Kept(review, line) == DictSet(review, "issue_summary", SummaryOf(line))

\* current_review = {} after the append
ClearedReview(review, line) == EmptyDict

\* the indexing [1] raises IndexError when the split has a single part
RECURSIVE SplitFails(_, _)
SplitFails(ls, i) ==
    IF i > Len(ls) THEN FALSE
    ELSE IF Contains(ls[i], OverallMarker) THEN Len(Split(ls[i], OverallMarker)) < 2
    ELSE SplitFails(ls, i + 1)

\* what the try block raises: a non-str has no usable split, or an index fails
Raises == ~IsText \/ SplitFails(Lines, 1)

\* an except clause that also fills in success fields
ErrorResult_Mixed ==
    [error |-> "Could not structure the analysis results",
     negative_reviews |-> <<>>,
     negative_count |-> 0]

\* the dict of the except clause
ErrorResult == [error |-> "Could not structure the analysis results"]

\* the try block raises: the except clause returns
StructureFail ==
    /\ pc = "start"
    /\ Raises
    /\ result' = ErrorResult
    /\ pc' = "done"
    /\ UNCHANGED <<analysis_text, idx, overall_sentiment, in_negative_section,
                   current_review, negative_reviews, csv_vars, key_vars>>

\* the first loop and the initialisation of the second
ExtractSentiment ==
    /\ pc = "start"
    /\ ~Raises
    /\ overall_sentiment' = ExtractOverallSentiment(Lines, 1)
    /\ negative_reviews' = <<>>
    /\ in_negative_section' = FALSE
    /\ current_review' = EmptyDict
    /\ idx' = 1
    /\ pc' = "scan"
    /\ UNCHANGED <<analysis_text, result, csv_vars, key_vars>>

\* one iteration of the second loop
ProcessLine ==
    /\ pc = "scan"
    /\ idx <= Len(Lines)
    /\ LET line == Strip(Lines[idx])
       IN  IF IsSectionStart(line)
           THEN /\ in_negative_section' = TRUE
                /\ UNCHANGED <<current_review, negative_reviews>>
           ELSE IF IsSkipped(line, in_negative_section)
           THEN UNCHANGED <<in_negative_section, current_review, negative_reviews>>
           ELSE IF IsIssueSummary(line)
           THEN IF current_review # EmptyDict
                THEN /\ negative_reviews' =
                          Append(negative_reviews, CompletedReview(current_review, line))
                     /\ current_review' = ClearedReview(current_review, line)
                     /\ UNCHANGED in_negative_section
                ELSE UNCHANGED <<in_negative_section, current_review, negative_reviews>>
           ELSE IF IsUsernameLine(line, current_review)
           THEN /\ current_review' = NewReview(line)
                /\ UNCHANGED <<in_negative_section, negative_reviews>>
           ELSE UNCHANGED <<in_negative_section, current_review, negative_reviews>>
    /\ idx' = idx + 1
    /\ UNCHANGED <<analysis_text, pc, overall_sentiment, result, csv_vars, key_vars>>

\* after the loop: "add the last review if there's one being processed"
EndOfText ==
    /\ pc = "scan"
    /\ idx > Len(Lines)
    /\ negative_reviews' =
          IF current_review # EmptyDict /\ "issue_summary" \in DOMAIN current_review
          THEN Append(negative_reviews, current_review)
          ELSE negative_reviews
    /\ pc' = "return"
    /\ UNCHANGED <<analysis_text, idx, overall_sentiment, in_negative_section,
                   current_review, result, csv_vars, key_vars>>

\* a returned dict whose count includes the pending review
StructuredData_CountsPending ==
    [overall_sentiment |-> overall_sentiment,
     negative_reviews |-> negative_reviews,
     negative_count |-> Len(negative_reviews) + (IF current_review # EmptyDict THEN 1 ELSE 0)]

\* the returned dict
StructuredData ==
    [overall_sentiment |-> overall_sentiment,
     negative_reviews |-> negative_reviews,
     negative_count |-> Len(negative_reviews)]

Return ==
    /\ pc = "return"
    /\ result' = StructuredData
    /\ pc' = "done"
    /\ UNCHANGED <<analysis_text, idx, overall_sentiment, in_negative_section,
                   current_review, negative_reviews, csv_vars, key_vars>>

(***************************************************************************)
(* The "Download Results as CSV" handler of app.py.  It parses the text    *)
(* the page displays, which is always a str.  The handler shares no state  *)
(* with the analyzer; here it runs on the same text once the analyzer has  *)
(* returned.                                                               *)
(***************************************************************************)
\* line.split("Overall Sentiment:")[1].strip()
CsvSentimentOf(line) == Strip(Split(line, OverallMarker)[2])

\* the first loop of the handler: overall_sentiment starts as ""
RECURSIVE CsvExtractOverallSentiment(_, _)
CsvExtractOverallSentiment(ls, i) ==
    IF i > Len(ls) THEN <<>>
    ELSE IF Contains(ls[i], OverallMarker) THEN CsvSentimentOf(ls[i])
    ELSE CsvExtractOverallSentiment(ls, i + 1)

\* line.split("Issue Summary:")[1].strip()
CsvSummaryOf(line) == Strip(Split(line, SummaryMarker)[2])

\* the row appended for an "Issue Summary:" line
CsvRow(user, review, summary) ==
    [Username |-> user, Review |-> review, IssueSummary |-> summary]

CsvStart ==
    /\ pc = "done"
    /\ IsText
    /\ csv_pc = "idle"
    /\ csv_overall_sentiment' = CsvExtractOverallSentiment(Lines, 1)
    /\ csv_negative_reviews' = <<>>
    /\ current_user' = <<>>
    /\ current_review_text' = <<>>
    /\ current_summary' = <<>>
    /\ parsing_negative' = FALSE
    /\ csv_idx' = 1
    /\ csv_pc' = "scan"
    /\ UNCHANGED <<analysis_text, parser_vars, key_vars>>

\* one iteration of the handler's second loop (the line is not stripped)
CsvProcessLine ==
    /\ csv_pc = "scan"
    /\ csv_idx <= Len(Lines)
    /\ LET line == Lines[csv_idx]
       IN  IF Contains(line, NegativeMarker)
           THEN /\ parsing_negative' = TRUE
                /\ UNCHANGED <<current_user, current_review_text, current_summary,
                               csv_negative_reviews>>
           ELSE IF ~parsing_negative \/ Strip(line) = <<>>
           THEN UNCHANGED <<parsing_negative, current_user, current_review_text,
                            current_summary, csv_negative_reviews>>
           ELSE IF Contains(line, SummaryMarker)
           THEN /\ csv_negative_reviews' =
                      Append(csv_negative_reviews,
                             CsvRow(current_user, current_review_text, CsvSummaryOf(line)))
                /\ current_user' = <<>>
                /\ current_review_text' = <<>>
                /\ current_summary' = <<>>
                /\ UNCHANGED parsing_negative
           ELSE IF Contains(line, Colon) /\ current_user = <<>>
           THEN /\ current_user' = Strip(SplitOnce(line, Colon)[1])
                /\ current_review_text' = Strip(SplitOnce(line, Colon)[2])
                /\ UNCHANGED <<parsing_negative, current_summary, csv_negative_reviews>>
           ELSE UNCHANGED <<parsing_negative, current_user, current_review_text,
                            current_summary, csv_negative_reviews>>
    /\ csv_idx' = csv_idx + 1
    /\ UNCHANGED <<key_vars, analysis_text, parser_vars, csv_pc, csv_overall_sentiment>>

\* the loop is over: the rows go to the DataFrame
CsvFinish ==
    /\ csv_pc = "scan"
    /\ csv_idx > Len(Lines)
    /\ csv_pc' = "done"
    /\ UNCHANGED <<key_vars, analysis_text, parser_vars, csv_idx, csv_overall_sentiment,
                   parsing_negative, current_user, current_review_text,
                   current_summary, csv_negative_reviews>>

(***************************************************************************)
(* SentimentAnalyzer.__init__ and SentimentAnalyzer.analyze, on several    *)
(* instances.  openai.api_key is one attribute of the openai module,       *)
(* shared by every instance.                                               *)
(***************************************************************************)
Instances == {"a1", "a2", "a3"}

Keys == {"k1", "k2"}

\* no key set yet
NoKey == "unset"

\* __init__(self, api_key), once per instance
Construct(self, key) ==
    /\ api_key[self] = NoKey
    /\ api_key' = [api_key EXCEPT ![self] = key]
    /\ openai_api_key' = key
    /\ UNCHANGED <<requests, analysis_text, parser_vars, csv_vars>>

\* the key openai.ChatCompletion.create sends: no api_key argument is passed,
\* so the library takes the module global
RequestKey(self) == openai_api_key

\* analyze(self, ...): the chat request of a constructed instance
Analyze(self) ==
    /\ api_key[self] # NoKey
    /\ requests' = requests \cup {[instance |-> self, key |-> RequestKey(self)]}
    /\ UNCHANGED <<api_key, openai_api_key, analysis_text, parser_vars, csv_vars>>

(***************************************************************************)
(* Specification of the analyzer on texts of arbitrary lines.              *)
(***************************************************************************)
InitState ==
    /\ pc = "start"
    /\ idx = 0
    /\ overall_sentiment = None
    /\ in_negative_section = FALSE
    /\ current_review = EmptyDict
    /\ negative_reviews = <<>>
    /\ result = EmptyDict
    /\ csv_pc = "idle"
    /\ csv_idx = 0
    /\ csv_overall_sentiment = <<>>
    /\ parsing_negative = FALSE
    /\ current_user = <<>>
    /\ current_review_text = <<>>
    /\ current_summary = <<>>
    /\ csv_negative_reviews = <<>>
    /\ api_key = [a \in Instances |-> NoKey]
    /\ openai_api_key = NoKey
    /\ requests = {}

Inputs == {TextInput(ls) : ls \in SeqsUpTo(LineSet, MaxLines)} \cup {NonTextInput}

Init == analysis_text \in Inputs /\ InitState

Next == StructureFail \/ ExtractSentiment \/ ProcessLine \/ EndOfText \/ Return

Spec == Init /\ [][Next]_vars

(***************************************************************************)
(* Specification of the analyzer on texts that open the negative-reviews   *)
(* section on their first line.                                            *)
(***************************************************************************)
SectionHeader == <<"b", " ", "N", ":", " ">>

BodyLines ==
    { <<" ">>,
      <<"b">>,
      <<" ", "a", " ", ":", " ", "b", ":", "a">>,
      <<"b", ":">>,
      <<"I", ":", " ", "a">>,
      <<" ", "I", ":", "b", " ">>,
      <<"I", ":", "N", ":">> }

SectionInputs ==
    {TextInput(<<SectionHeader>> \o body) : body \in SeqsUpTo(BodyLines, MaxLines)}
        \cup {NonTextInput}

InitSection == analysis_text \in SectionInputs /\ InitState

SpecSection == InitSection /\ [][Next]_vars

(***************************************************************************)
(* Specification of both parsers on the same text.                         *)
(***************************************************************************)
NextCsv == Next \/ CsvStart \/ CsvProcessLine \/ CsvFinish

SpecCsv == Init /\ [][NextCsv]_vars

(***************************************************************************)
(* Specification of constructions and analyze() calls in any order.  The   *)
(* parsing of a response is what Spec covers; here the parser is at rest.  *)
(***************************************************************************)
InitKeys == analysis_text = TextInput(<<>>) /\ InitState

NextKeys ==
    \/ \E self \in Instances, key \in Keys : Construct(self, key)
    \/ \E self \in Instances : Analyze(self)

SpecKeys == InitKeys /\ [][NextKeys]_vars

(***************************************************************************)
(* Vocabulary of the properties, stated on the text itself.                *)
(***************************************************************************)
\* the indices of the lines of ls that contain marker m
MarkerLines(ls, m) == {i \in 1..Len(ls) : Contains(ls[i], m)}

Min(S) == CHOOSE i \in S : \A j \in S : i <= j

\* everything after the first occurrence of m in line
AfterFirst(line, m) == Drop(line, Find(line, m) + Len(m))

\* everything before the first occurrence of m in line
BeforeFirst(line, m) == SubSeq(line, 1, Find(line, m) - 1)

Returned == pc = "done" /\ "negative_reviews" \in DOMAIN result

\* the step of the second loop that processes line idx
LineStep == pc = "scan" /\ pc' = "scan" /\ idx' = idx + 1

ParserState == <<in_negative_section, current_review, negative_reviews>>

(***************************************************************************)
(* C3: overall_sentiment is None exactly when no line contains             *)
(* "Overall Sentiment:"; otherwise the first line, in document order, that *)
(* contains the marker decides it alone, whatever later lines hold.        *)
(***************************************************************************)
C3_SentimentFromFirstMarkerLine ==
    Returned =>
        LET M == MarkerLines(Lines, OverallMarker)
        IN  /\ (result.overall_sentiment = None) <=> (M = {})
            /\ M # {} => result.overall_sentiment = Str(SentimentOf(Lines[Min(M)]))

\* two marker lines with different values; the first one is returned
C3_Witness ==
    /\ Returned
    /\ LET M == MarkerLines(Lines, OverallMarker)
       IN  /\ Cardinality(M) >= 2
           /\ \E j \in M : SentimentOf(Lines[j]) # SentimentOf(Lines[Min(M)])
           /\ result.overall_sentiment = Str(SentimentOf(Lines[Min(M)]))

(***************************************************************************)
(* C4: the returned overall_sentiment is everything after the marker on    *)
(* the first line containing it, trimmed, also when the marker occurs more *)
(* than once on that line.                                                 *)
(***************************************************************************)
C4_EverythingAfterMarker ==
    Returned =>
        LET M == MarkerLines(Lines, OverallMarker)
        IN  M # {} =>
              result.overall_sentiment = Str(Strip(AfterFirst(Lines[Min(M)], OverallMarker)))

(***************************************************************************)
(* C5: the returned record has negative_count = len(negative_reviews).     *)
(***************************************************************************)
C5_CountIsLength ==
    Returned =>
        /\ "negative_count" \in DOMAIN result
        /\ result.negative_count = Len(result.negative_reviews)

\* a returned record with an entry, and a pending review that was discarded
C5_Witness ==
    /\ Returned
    /\ result.negative_count >= 1
    /\ current_review # EmptyDict

(***************************************************************************)
(* C6: _structure_analysis never raises.  A text input returns exactly the *)
(* fields overall_sentiment, negative_reviews, negative_count; a non-text  *)
(* input returns only the error field; no record mixes the two.            *)
(***************************************************************************)
C6_ErrorOrSuccessRecord ==
    /\ IsText => ~Raises
    /\ pc = "done" =>
          IF IsText
          THEN DOMAIN result = {"overall_sentiment", "negative_reviews", "negative_count"}
          ELSE DOMAIN result = {"error"}

\* the non-text input has returned the error record
C6_Witness == pc = "done" /\ ~IsText /\ DOMAIN result = {"error"}

C8_NothingBeforeSection ==
    /\ (pc = "scan" /\ \A j \in 1..(idx - 1) : ~Contains(Lines[j], NegativeMarker)) =>
          current_review = EmptyDict /\ negative_reviews = <<>>
    /\ (Returned /\ MarkerLines(Lines, NegativeMarker) = {}) =>
          result.negative_reviews = <<>>

\* a text without the marker, with a username line before a summary line
C8_Witness ==
    /\ Returned
    /\ MarkerLines(Lines, NegativeMarker) = {}
    /\ \E i, j \in 1..Len(Lines) :
          /\ i < j
          /\ Contains(Lines[i], Colon)
          /\ ~StartsWith(Strip(Lines[i]), SummaryMarker)
          /\ StartsWith(Strip(Lines[j]), SummaryMarker)
    /\ result.negative_reviews = <<>>

(***************************************************************************)
(* C10: a line changes in_negative_section, the pending entry or the       *)
(* result only if it contains "Negative Reviews:", or starts with "Issue   *)
(* Summary:" while an entry is pending, or contains a colon inside the     *)
(* section while none is pending.  An "Issue Summary:" line with no        *)
(* pending entry appends nothing; a colon-bearing line that arrives while  *)
(* an entry is pending neither replaces nor extends it.                    *)
(***************************************************************************)
C10_FrameOfLine ==
    [][LineStep =>
         LET line == Strip(Lines[idx])
             marker == Contains(Lines[idx], NegativeMarker)
             summary == StartsWith(line, SummaryMarker)
             pending == current_review # EmptyDict
             colon == Contains(line, Colon)
         IN  /\ ~(marker \/ (summary /\ pending) \/ (colon /\ in_negative_section /\ ~pending))
                  => ParserState' = ParserState
             /\ (~marker /\ summary /\ ~pending) => ParserState' = ParserState
             /\ (~marker /\ ~summary /\ colon /\ pending) => ParserState' = ParserState
      ]_vars

\* two username lines in a row were processed and the pending entry is the first
C10_Witness ==
    /\ pc = "scan"
    /\ idx >= 3
    /\ in_negative_section
    /\ LET first == Strip(Lines[idx - 2])
           second == Strip(Lines[idx - 1])
           shaped(l) == /\ Contains(l, Colon)
                        /\ ~Contains(l, NegativeMarker)
                        /\ ~StartsWith(l, SummaryMarker)
       IN  /\ shaped(first)
           /\ shaped(second)
           /\ Strip(BeforeFirst(first, Colon)) # Strip(BeforeFirst(second, Colon))
           /\ current_review = [username |-> Strip(BeforeFirst(first, Colon)),
                                review_text |-> Strip(AfterFirst(first, Colon))]

(***************************************************************************)
(* The template of the negative-reviews section, stated on the text.       *)
(***************************************************************************)
IsBlank(l) == Strip(l) = <<>>

RECURSIVE NonBlank(_)
NonBlank(ls) ==
    IF ls = <<>> THEN <<>>
    ELSE IF IsBlank(Head(ls)) THEN NonBlank(Tail(ls))
    ELSE <<Head(ls)>> \o NonBlank(Tail(ls))

\* a "<username>: <review text>" line
IsReviewLine(l) == Contains(l, Colon)

\* an "Issue Summary: <summary>" line
IsSummaryLine(l) == StartsWith(Strip(l), SummaryMarker)

\* a marker line followed by complete triples, blank lines allowed between
Templated(ls) ==
    /\ Contains(ls[1], NegativeMarker)
    /\ LET nb == NonBlank(Tail(ls))
       IN  /\ Len(nb) % 2 = 0
           /\ \A i \in 1..Len(nb) :
                 IF i % 2 = 1 THEN IsReviewLine(nb[i]) ELSE IsSummaryLine(nb[i])

\* no line of a triple contains the section marker and no username line
\* starts with the summary marker
CleanTemplated(ls) ==
    /\ Templated(ls)
    /\ LET nb == NonBlank(Tail(ls))
       IN  \A i \in 1..Len(nb) :
              /\ ~Contains(nb[i], NegativeMarker)
              /\ i % 2 = 1 => ~IsSummaryLine(nb[i])

\* the entries of the triples, in source order
ExpectedReviews(ls) ==
    LET nb == NonBlank(Tail(ls))
    IN  [i \in 1..(Len(nb) \div 2) |->
           [username |-> Strip(BeforeFirst(nb[2 * i - 1], Colon)),
            review_text |-> Strip(AfterFirst(nb[2 * i - 1], Colon)),
            issue_summary |-> Strip(AfterFirst(nb[2 * i], SummaryMarker))]]

(***************************************************************************)
(* C1 as stated: for every text made of a line containing "Negative        *)
(* Reviews:" followed by N >= 0 complete triples, the result has exactly   *)
(* the N entries of the triples, in source order, fields trimmed.          *)
(***************************************************************************)
C1_TemplateRoundTrip ==
    (Returned /\ Templated(Lines)) => result.negative_reviews = ExpectedReviews(Lines)

(***************************************************************************)
(* C1 as amended: the same, for the texts in which no line of a triple     *)
(* contains "Negative Reviews:" and no username line starts with "Issue    *)
(* Summary:".                                                              *)
(***************************************************************************)
C1_CleanTemplateRoundTrip ==
    (Returned /\ CleanTemplated(Lines)) => result.negative_reviews = ExpectedReviews(Lines)

\* two different triples came back as two entries
C1_Witness ==
    /\ Returned
    /\ CleanTemplated(Lines)
    /\ Len(result.negative_reviews) = 2
    /\ result.negative_reviews[1].username # result.negative_reviews[2].username
    /\ result.negative_reviews[1].issue_summary # result.negative_reviews[2].issue_summary
    /\ \E i \in 1..2 : Contains(result.negative_reviews[i].review_text, Colon)

(***************************************************************************)
(* The lines as the second loop classifies them, stated on the text.       *)
(***************************************************************************)
\* a username/review line: it has a colon and is neither marker line
Shaped(l) ==
    /\ Contains(l, Colon)
    /\ ~Contains(l, NegativeMarker)
    /\ ~IsSummaryLine(l)

\* an "Issue Summary:" line that the loop treats as one
SummaryProcessed(l) == IsSummaryLine(l) /\ ~Contains(l, NegativeMarker)

\* the section has started before line j
InSectionAt(ls, j) == \E i \in 1..(j - 1) : Contains(ls[i], NegativeMarker)

\* no entry is pending when line k is reached
PendingAbsentAt(ls, k) ==
    LET prev == {j \in 1..(k - 1) : SummaryProcessed(ls[j])}
        p == IF prev = {} THEN 0 ELSE CHOOSE j \in prev : \A i \in prev : i <= j
    IN  \A j \in (p + 1)..(k - 1) : ~(Shaped(ls[j]) /\ InSectionAt(ls, j))

\* lines k and k+1 are username lines inside the section and line m is the
\* next "Issue Summary:" line
TwoInARow(ls, k, m) ==
    /\ k + 1 < m
    /\ InSectionAt(ls, k)
    /\ Shaped(ls[k])
    /\ Shaped(ls[k + 1])
    /\ SummaryProcessed(ls[m])
    /\ \A j \in (k + 2)..(m - 1) : ~SummaryProcessed(ls[j])

UserOf(l) == Strip(BeforeFirst(l, Colon))

ReviewOf(l) == Strip(AfterFirst(l, Colon))

LastReview == negative_reviews[Len(negative_reviews)]

(***************************************************************************)
(* C2 as stated: when a username/review line is followed immediately by    *)
(* another one, the first is dropped: the next "Issue Summary:" line       *)
(* completes an entry whose username and review_text are the second's.     *)
(***************************************************************************)
C2_FirstOfTwoDropped ==
    (pc = "scan" /\ idx >= 2) =>
        \A k \in 1..(idx - 1) :
            TwoInARow(Lines, k, idx - 1) =>
                /\ negative_reviews # <<>>
                /\ LastReview.username = UserOf(Lines[k + 1])
                /\ LastReview.review_text = ReviewOf(Lines[k + 1])

(***************************************************************************)
(* C2 as amended: when a username/review line that finds no entry pending  *)
(* is followed immediately by another one, the second is dropped: the next *)
(* "Issue Summary:" line completes an entry whose username and review_text *)
(* are the first's.                                                        *)
(***************************************************************************)
C2_SecondOfTwoDropped ==
    (pc = "scan" /\ idx >= 2) =>
        \A k \in 1..(idx - 1) :
            (TwoInARow(Lines, k, idx - 1) /\ PendingAbsentAt(Lines, k)) =>
                /\ negative_reviews # <<>>
                /\ LastReview.username = UserOf(Lines[k])
                /\ LastReview.review_text = ReviewOf(Lines[k])
                /\ LastReview.issue_summary =
                      Strip(AfterFirst(Lines[idx - 1], SummaryMarker))

\* two different username lines in a row, then the summary line: the entry
\* is the first line's
C2_Witness ==
    /\ pc = "scan"
    /\ idx >= 2
    /\ \E k \in 1..(idx - 1) :
          /\ TwoInARow(Lines, k, idx - 1)
          /\ PendingAbsentAt(Lines, k)
          /\ UserOf(Lines[k]) # UserOf(Lines[k + 1])
          /\ LastReview.username = UserOf(Lines[k])

(***************************************************************************)
(* C9: the CSV handler's parser and _structure_analysis, run on the same   *)
(* text, produce the same sequence of negative-review entries (length,     *)
(* order, username, review text, issue summary) and the same overall       *)
(* sentiment (an absent one being the handler's empty one).                *)
(***************************************************************************)
C9_SameParsing ==
    (csv_pc = "done" /\ Returned) =>
        /\ Len(csv_negative_reviews) = Len(result.negative_reviews)
        /\ \A i \in 1..Len(csv_negative_reviews) :
              /\ i <= Len(result.negative_reviews)
              /\ csv_negative_reviews[i].Username = result.negative_reviews[i].username
              /\ csv_negative_reviews[i].Review = result.negative_reviews[i].review_text
              /\ csv_negative_reviews[i].IssueSummary =
                    result.negative_reviews[i].issue_summary
        /\ csv_overall_sentiment =
              (IF result.overall_sentiment = None THEN <<>> ELSE result.overall_sentiment[1])

(***************************************************************************)
(* C11: every line that contains "Negative Reviews:" anywhere, wherever it *)
(* occurs in the text and whatever else it looks like, only sets           *)
(* in_negative_section and leaves the pending entry and the result alone;  *)
(* once in_negative_section is true it stays true.                         *)
(***************************************************************************)
C11_MarkerLineOnlyOpensSection ==
    [][/\ (LineStep /\ Contains(Lines[idx], NegativeMarker)) =>
             /\ in_negative_section'
             /\ current_review' = current_review
             /\ negative_reviews' = negative_reviews
       /\ in_negative_section => in_negative_section'
      ]_vars

\* inside the section, with an entry pending, a line that starts with
\* "Issue Summary:" and contains "Negative Reviews:" has been processed
C11_Witness ==
    /\ pc = "scan"
    /\ idx >= 3
    /\ InSectionAt(Lines, idx - 1)
    /\ IsSummaryLine(Lines[idx - 1])
    /\ Contains(Lines[idx - 1], NegativeMarker)
    /\ in_negative_section
    /\ current_review # EmptyDict
    /\ negative_reviews = <<>>

(***************************************************************************)
(* C12: in every order of constructions and analyze() calls on several     *)
(* instances, each analyze() call issues its chat request under the key    *)
(* its own instance was constructed with (self.api_key).                   *)
(***************************************************************************)
C12_RequestUnderOwnKey ==
    \A r \in requests : r.key = api_key[r.instance]

====
